---- MODULE Spec2Model ----
(***************************************************************************)
(* Library Management API (src/app/main.py): the four tables (books,       *)
(* members, transactions, fines), the request handlers that write them and *)
(* the clock they read.  One action per handler; a handler that raises     *)
(* before db.commit() leaves the tables as they were (the session is       *)
(* closed by get_db without a commit).                                     *)
(*                                                                         *)
(* Time is counted in ticks of half a day, so that a return can be late by *)
(* less than one whole day.  Money is counted in cents.  The audit columns *)
(* created_at / updated_at are written by the ORM and read by no handler;  *)
(* they are left out of the rows.                                          *)
(***************************************************************************)
EXTENDS Integers, Sequences, FiniteSets, TLC

VARIABLES books, members, transactions, fines, now, last, req

vars == <<books, members, transactions, fines, now, last, req>>
tables == <<books, members, transactions, fines>>

(***************************************************************************)
(* Bounds of the model.  Spec explores every handler over one isbn and one *)
(* email, so over at most one book and one member at a time.               *)
(***************************************************************************)
MaxBooks == 1
MaxMembers == 1
MaxTx == 2
MaxFines == 1
MaxCopies == 1
MaxTime == 29

(***************************************************************************)
(* Program constants.                                                      *)
(***************************************************************************)
TicksPerDay == 2
LOAN_DAYS == 14
MAX_BORROWS == 3
FINE_RATE == 50
Null == -1

LoanTicks == LOAN_DAYS * TicksPerDay

(***************************************************************************)
(* Inputs of the requests.  total_copies is any int the schema accepts:    *)
(* BookBase declares no lower limit.                                       *)
(***************************************************************************)
BookIds == 1..MaxBooks
MemberIds == 1..MaxMembers
TxIds == 1..MaxTx
FineIds == 1..MaxFines
Uuids == {"u1", "u2", "u3"}
CopiesInputs == {-1, 0, 1}
TimeSteps == {LoanTicks + 1}

BookCreate ==
    [isbn : {"111"}, title : {"T1"}, author : {"A1"}, category : {"K1"},
     total_copies : CopiesInputs]

MemberCreate == [name : {"N1"}, email : {"a@x"}]

(***************************************************************************)
(* Helpers on tables: a table is a function from the ids of its rows.      *)
(***************************************************************************)
Max(S) == CHOOSE x \in S : \A y \in S : y <= x

\* SQLite INTEGER PRIMARY KEY without AUTOINCREMENT: largest rowid + 1.
NextId(table) == IF DOMAIN table = {} THEN 1 ELSE Max(DOMAIN table) + 1

Insert(table, id, row) ==
    [i \in DOMAIN table \cup {id} |-> IF i = id THEN row ELSE table[i]]

Delete(table, id) == [i \in DOMAIN table \ {id} |-> table[i]]

\* unique=True columns: the commit raises IntegrityError on a duplicate.
IsbnTaken(isbn, except) ==
    \E i \in DOMAIN books \ except : books[i].isbn = isbn

EmailTaken(email, except) ==
    \E i \in DOMAIN members \ except : members[i].email = email

NumberTaken(number) ==
    \E i \in DOMAIN members : members[i].membership_number = number

Response(op, b, m, t, code, detail, ids) ==
    [op |-> op, book_id |-> b, member_id |-> m, id |-> t,
     code |-> code, detail |-> detail, ids |-> ids]

\* The borrow requests in flight under SpecConc: where each one is in the
\* handler, what it read, and its answer.  The other specifications serve one
\* request at a time and leave req alone.
ConcRequests == 2

Slots == 1..ConcRequests

Idle == [pc |-> "idle", book_id |-> 0, member_id |-> 0,
         available_copies |-> 0, code |-> 0, detail |-> ""]

Init ==
    /\ books = <<>>
    /\ members = <<>>
    /\ transactions = <<>>
    /\ fines = <<>>
    /\ now = 0
    /\ last = Response("start", 0, 0, 0, 200, "", {})
    /\ req = [p \in Slots |-> Idle]

(***************************************************************************)
(* The clock: datetime.utcnow() between two requests.  Within a request    *)
(* the clock moves only in borrow_book, and only under SpecCore: the other *)
(* specifications serve each request within one tick.                      *)
(***************************************************************************)
Tick(d) ==
    /\ now' = now + d
    /\ UNCHANGED <<books, members, transactions, fines, last, req>>

(***************************************************************************)
(* Books.                                                                  *)
(***************************************************************************)
NewBook(book) ==
    [isbn |-> book.isbn, title |-> book.title, author |-> book.author,
     category |-> book.category, status |-> "available",
     total_copies |-> book.total_copies,
     available_copies |-> book.total_copies]

create_book(book) ==
    /\ IF IsbnTaken(book.isbn, {})
       THEN /\ last' = Response("create_book", 0, 0, 0, 500, "IntegrityError", {})
            /\ UNCHANGED books
       ELSE /\ books' = Insert(books, NextId(books), NewBook(book))
            /\ last' = Response("create_book", NextId(books), 0, 0, 200, "", {})
    /\ UNCHANGED <<members, transactions, fines, now, req>>

UpdatedBook_Recompute(db_book, book) ==
    [db_book EXCEPT !.isbn = book.isbn, !.title = book.title,
                    !.author = book.author, !.category = book.category,
                    !.total_copies = book.total_copies,
                    !.available_copies = book.total_copies]

UpdatedBook(db_book, book) ==
    [db_book EXCEPT !.isbn = book.isbn, !.title = book.title,
                    !.author = book.author, !.category = book.category,
                    !.total_copies = book.total_copies]

update_book(book_id, book) ==
    /\ IF book_id \notin DOMAIN books
       THEN /\ last' = Response("update_book", book_id, 0, 0, 404, "Book not found", {})
            /\ UNCHANGED books
       ELSE IF IsbnTaken(book.isbn, {book_id})
       THEN /\ last' = Response("update_book", book_id, 0, 0, 500, "IntegrityError", {})
            /\ UNCHANGED books
       ELSE /\ books' = [books EXCEPT ![book_id] = UpdatedBook(@, book)]
            /\ last' = Response("update_book", book_id, 0, 0, 200, "", {})
    /\ UNCHANGED <<members, transactions, fines, now, req>>

\* SQLite does not enforce the ForeignKey columns (no PRAGMA foreign_keys), and
\* the models declare no relationship: the row goes, its transactions stay.
delete_book(book_id) ==
    /\ IF book_id \notin DOMAIN books
       THEN /\ last' = Response("delete_book", book_id, 0, 0, 404, "Book not found", {})
            /\ UNCHANGED books
       ELSE /\ books' = Delete(books, book_id)
            /\ last' = Response("delete_book", book_id, 0, 0, 200, "", {})
    /\ UNCHANGED <<members, transactions, fines, now, req>>

(***************************************************************************)
(* Members.                                                                *)
(***************************************************************************)
NewMember(member, number) ==
    [name |-> member.name, email |-> member.email,
     membership_number |-> number, status |-> "active"]

create_member(member, number) ==
    /\ IF EmailTaken(member.email, {}) \/ NumberTaken(number)
       THEN /\ last' = Response("create_member", 0, 0, 0, 500, "IntegrityError", {})
            /\ UNCHANGED members
       ELSE /\ members' = Insert(members, NextId(members), NewMember(member, number))
            /\ last' = Response("create_member", 0, NextId(members), 0, 200, "", {})
    /\ UNCHANGED <<books, transactions, fines, now, req>>

UpdatedMember(db_member, member) ==
    [db_member EXCEPT !.name = member.name, !.email = member.email]

update_member(member_id, member) ==
    /\ IF member_id \notin DOMAIN members
       THEN /\ last' = Response("update_member", 0, member_id, 0, 404, "Member not found", {})
            /\ UNCHANGED members
       ELSE IF EmailTaken(member.email, {member_id})
       THEN /\ last' = Response("update_member", 0, member_id, 0, 500, "IntegrityError", {})
            /\ UNCHANGED members
       ELSE /\ members' = [members EXCEPT ![member_id] = UpdatedMember(@, member)]
            /\ last' = Response("update_member", 0, member_id, 0, 200, "", {})
    /\ UNCHANGED <<books, transactions, fines, now, req>>

delete_member(member_id) ==
    /\ IF member_id \notin DOMAIN members
       THEN /\ last' = Response("delete_member", 0, member_id, 0, 404, "Member not found", {})
            /\ UNCHANGED members
       ELSE /\ members' = Delete(members, member_id)
            /\ last' = Response("delete_member", 0, member_id, 0, 200, "", {})
    /\ UNCHANGED <<books, transactions, fines, now, req>>

(***************************************************************************)
(* Borrow.                                                                 *)
(***************************************************************************)
BookNotAvailable_StatusOnly(book) == book.status # "available"

BookNotAvailable(book) ==
    book.status # "available" \/ book.available_copies = 0

ActiveBorrows(txs, member_id) ==
    Cardinality({i \in DOMAIN txs :
        txs[i].member_id = member_id /\ txs[i].status = "active"})

LimitReached_OffByOne(active_borrows) == active_borrows > MAX_BORROWS

LimitReached(active_borrows) == active_borrows >= MAX_BORROWS

UnpaidFines_PositiveOnly(fs, member_id) ==
    Cardinality({i \in DOMAIN fs :
        fs[i].member_id = member_id /\ fs[i].paid_at = Null /\ fs[i].amount > 0})

UnpaidFines(fs, member_id) ==
    Cardinality({i \in DOMAIN fs :
        fs[i].member_id = member_id /\ fs[i].paid_at = Null})

HasUnpaidFines(unpaid_fines) == unpaid_fines > 0

DueDate(t) == t + LoanTicks

\* due_date is computed in the handler; borrowed_at is the column default,
\* a later reading of the clock taken when the row is inserted.
NewTransaction(book_id, member_id, due_date, borrowed_at) ==
    [book_id |-> book_id, member_id |-> member_id, borrowed_at |-> borrowed_at,
     due_date |-> due_date, returned_at |-> Null, status |-> "active"]

BorrowedBook_KeepStatus(book) == [book EXCEPT !.available_copies = @ - 1]

BorrowedBook(book) ==
    [book EXCEPT !.available_copies = @ - 1,
                 !.status = IF book.available_copies - 1 = 0 THEN "borrowed" ELSE @]

\* lag: the ticks of the clock between utcnow() in the handler and utcnow()
\* at the insert (0 unless a tick falls between the two).
borrow_book(book_id, member_id, lag) ==
    /\ IF member_id \notin DOMAIN members
       THEN /\ last' = Response("borrow", book_id, member_id, 0, 404, "Member not found", {})
            /\ UNCHANGED <<books, transactions, now>>
       ELSE IF book_id \notin DOMAIN books
       THEN /\ last' = Response("borrow", book_id, member_id, 0, 404, "Book not found", {})
            /\ UNCHANGED <<books, transactions, now>>
       ELSE IF BookNotAvailable(books[book_id])
       THEN /\ last' = Response("borrow", book_id, member_id, 0, 409, "Book not available", {})
            /\ UNCHANGED <<books, transactions, now>>
       ELSE IF LimitReached(ActiveBorrows(transactions, member_id))
       THEN /\ last' = Response("borrow", book_id, member_id, 0, 409, "Maximum borrowing limit reached", {})
            /\ UNCHANGED <<books, transactions, now>>
       ELSE IF HasUnpaidFines(UnpaidFines(fines, member_id))
       THEN /\ last' = Response("borrow", book_id, member_id, 0, 409, "Member has unpaid fines", {})
            /\ UNCHANGED <<books, transactions, now>>
       ELSE /\ books' = [books EXCEPT ![book_id] = BorrowedBook(@)]
            /\ transactions' = Append(transactions,
                    NewTransaction(book_id, member_id, DueDate(now), now + lag))
            /\ now' = now + lag
            /\ last' = Response("borrow", book_id, member_id, Len(transactions) + 1, 200, "", {})
    /\ UNCHANGED <<members, fines, req>>

(***************************************************************************)
(* Return.                                                                 *)
(***************************************************************************)
ReturnedTransaction_Toggle(transaction, t) ==
    [transaction EXCEPT !.returned_at = t,
                        !.status = IF @ = "returned" THEN "active" ELSE "returned"]

ReturnedTransaction(transaction, t) ==
    [transaction EXCEPT !.returned_at = t, !.status = "returned"]

ReturnedBook(book) ==
    [book EXCEPT !.available_copies = @ + 1,
                 !.status = IF book.available_copies + 1 > 0 THEN "available" ELSE @]

IsLate_OrEqual(returned_at, due_date) == returned_at >= due_date

IsLate(returned_at, due_date) == returned_at > due_date

DaysOverdue_RoundUp(returned_at, due_date) ==
    (returned_at - due_date + TicksPerDay - 1) \div TicksPerDay

\* timedelta.days of a positive difference: whole days, rounded down.
DaysOverdue(returned_at, due_date) == (returned_at - due_date) \div TicksPerDay

FineAmount(days_overdue) == days_overdue * FINE_RATE

NewFine(transaction_id, transaction) ==
    [member_id |-> transaction.member_id, transaction_id |-> transaction_id,
     amount |-> FineAmount(DaysOverdue(transaction.returned_at, transaction.due_date)),
     paid_at |-> Null]

\* return_book with a commit of the transaction before the book is resolved.
return_book_CommitFirst(transaction_id) ==
    /\ IF transaction_id \notin DOMAIN transactions
       THEN /\ last' = Response("return", 0, 0, transaction_id, 404, "Transaction not found", {})
            /\ UNCHANGED <<books, transactions, fines>>
       ELSE LET transaction == transactions[transaction_id]
                returned == ReturnedTransaction(transaction, now)
            IN  /\ transactions' = [transactions EXCEPT ![transaction_id] = returned]
                /\ IF transaction.book_id \notin DOMAIN books
                   THEN /\ last' = Response("return", transaction.book_id, 0, transaction_id,
                                            500, "AttributeError", {})
                        /\ UNCHANGED <<books, fines>>
                   ELSE /\ books' = [books EXCEPT ![transaction.book_id] = ReturnedBook(@)]
                        /\ fines' = IF IsLate(returned.returned_at, returned.due_date)
                                    THEN Append(fines, NewFine(transaction_id, returned))
                                    ELSE fines
                        /\ last' = Response("return", transaction.book_id, transaction.member_id,
                                            transaction_id, 200, "", {})
    /\ UNCHANGED <<members, now, req>>

return_book(transaction_id) ==
    /\ IF transaction_id \notin DOMAIN transactions
       THEN /\ last' = Response("return", 0, 0, transaction_id, 404, "Transaction not found", {})
            /\ UNCHANGED <<books, transactions, fines>>
       ELSE LET transaction == transactions[transaction_id]
                returned == ReturnedTransaction(transaction, now)
            IN  IF transaction.book_id \notin DOMAIN books
                THEN \* book is None: AttributeError before the commit
                     /\ last' = Response("return", transaction.book_id, 0, transaction_id,
                                         500, "AttributeError", {})
                     /\ UNCHANGED <<books, transactions, fines>>
                ELSE /\ transactions' = [transactions EXCEPT ![transaction_id] = returned]
                     /\ books' = [books EXCEPT ![transaction.book_id] = ReturnedBook(@)]
                     /\ fines' = IF IsLate(returned.returned_at, returned.due_date)
                                 THEN Append(fines, NewFine(transaction_id, returned))
                                 ELSE fines
                     /\ last' = Response("return", transaction.book_id, transaction.member_id,
                                         transaction_id, 200, "", {})
    /\ UNCHANGED <<members, now, req>>

(***************************************************************************)
(* Overdue listing.                                                        *)
(***************************************************************************)
IsOverdue_OrDueNow(transaction, t) ==
    transaction.status = "active" /\ transaction.due_date <= t

IsOverdue(transaction, t) ==
    transaction.status = "active" /\ transaction.due_date < t

OverdueTransactions(txs, t) == {i \in DOMAIN txs : IsOverdue(txs[i], t)}

get_overdue_transactions ==
    /\ last' = Response("overdue", 0, 0, 0, 200, "", OverdueTransactions(transactions, now))
    /\ UNCHANGED <<books, members, transactions, fines, now, req>>

(***************************************************************************)
(* Fines.                                                                  *)
(***************************************************************************)
PaidFine_KeepFirst(fine, t) ==
    IF fine.paid_at = Null THEN [fine EXCEPT !.paid_at = t] ELSE fine

PaidFine(fine, t) == [fine EXCEPT !.paid_at = t]

pay_fine(fine_id) ==
    /\ IF fine_id \notin DOMAIN fines
       THEN /\ last' = Response("pay_fine", 0, 0, fine_id, 404, "Fine not found", {})
            /\ UNCHANGED fines
       ELSE /\ fines' = [fines EXCEPT ![fine_id] = PaidFine(@, now)]
            /\ last' = Response("pay_fine", 0, fines[fine_id].member_id, fine_id, 200, "", {})
    /\ UNCHANGED <<books, members, transactions, now, req>>

(***************************************************************************)
(* The part of the state space that is explored: a step that would leave   *)
(* it is not taken.                                                        *)
(***************************************************************************)
Bounded(maxBooks, maxMembers, maxTx, maxFines, maxCopies, maxTime) ==
    /\ DOMAIN books \subseteq 1..maxBooks
    /\ DOMAIN members \subseteq 1..maxMembers
    /\ Len(transactions) <= maxTx
    /\ Len(fines) <= maxFines
    /\ now <= maxTime
    /\ \A i \in DOMAIN books : books[i].available_copies <= maxCopies

InBounds == Bounded(MaxBooks, MaxMembers, MaxTx, MaxFines, MaxCopies, MaxTime)

\* uuid.uuid4(): a membership number no member holds.  Which one is read by
\* no handler, so one unused value stands for all of them.
FreshNumber == CHOOSE number \in Uuids : ~NumberTaken(number)

Next ==
    \/ \E d \in TimeSteps : Tick(d) /\ InBounds'
    \/ \E book \in BookCreate : create_book(book) /\ InBounds'
    \/ \E book_id \in BookIds, book \in BookCreate :
          update_book(book_id, book) /\ InBounds'
    \/ \E book_id \in BookIds : delete_book(book_id) /\ InBounds'
    \/ \E member \in MemberCreate : create_member(member, FreshNumber) /\ InBounds'
    \/ \E member_id \in MemberIds, member \in MemberCreate :
          update_member(member_id, member) /\ InBounds'
    \/ \E member_id \in MemberIds : delete_member(member_id) /\ InBounds'
    \/ \E book_id \in BookIds, member_id \in MemberIds :
          borrow_book(book_id, member_id, 0) /\ InBounds'
    \/ \E transaction_id \in TxIds : return_book(transaction_id) /\ InBounds'
    \/ get_overdue_transactions /\ InBounds'
    \/ \E fine_id \in FineIds : pay_fine(fine_id) /\ InBounds'

Spec == Init /\ [][Next]_vars

(***************************************************************************)
(* SpecClock: every handler over one book and one member, with a clock     *)
(* that reaches returns on the due date, less than a day late, and 3 and 5 *)
(* days late.  With one isbn and one email the unique columns keep at most *)
(* one book and one member, each with id 1.                                *)
(***************************************************************************)
ClockMaxTx == 1
ClockMaxFines == 1
ClockMaxTime == 39

ClockSteps == {5, LoanTicks, LoanTicks + 1}

ClockBooks ==
    [isbn : {"111"}, title : {"T1"}, author : {"A1"}, category : {"K1"},
     total_copies : {1}]

ClockMembers == [name : {"N1"}, email : {"a@x"}]

InClockBounds == Bounded(1, 1, ClockMaxTx, ClockMaxFines, 1, ClockMaxTime)

NextClock ==
    \/ \E d \in ClockSteps : Tick(d) /\ InClockBounds'
    \/ \E book \in ClockBooks : create_book(book) /\ InClockBounds'
    \/ \E book \in ClockBooks : update_book(1, book) /\ InClockBounds'
    \/ delete_book(1) /\ InClockBounds'
    \/ \E member \in ClockMembers : create_member(member, FreshNumber) /\ InClockBounds'
    \/ \E member \in ClockMembers : update_member(1, member) /\ InClockBounds'
    \/ delete_member(1) /\ InClockBounds'
    \/ borrow_book(1, 1, 0) /\ InClockBounds'
    \/ \E transaction_id \in 1..ClockMaxTx : return_book(transaction_id) /\ InClockBounds'
    \/ get_overdue_transactions /\ InClockBounds'
    \/ \E fine_id \in 1..ClockMaxFines : pay_fine(fine_id) /\ InClockBounds'

SpecClock == Init /\ [][NextClock]_vars

(***************************************************************************)
(* SpecLimit: every handler over one book of LimitCopies copies and one    *)
(* member, far enough to meet the borrowing limit.                         *)
(***************************************************************************)
LimitMaxTx == 4
LimitMaxFines == 1
LimitMaxTime == 29
LimitCopies == 4

LimitSteps == {LoanTicks + 1}

LimitBooks ==
    [isbn : {"111"}, title : {"T1"}, author : {"A1"}, category : {"K1"},
     total_copies : {LimitCopies}]

LimitMembers == [name : {"N1"}, email : {"a@x"}]

InLimitBounds ==
    Bounded(1, 1, LimitMaxTx, LimitMaxFines, LimitCopies, LimitMaxTime)

NextLimit ==
    \/ \E d \in LimitSteps : Tick(d) /\ InLimitBounds'
    \/ \E book \in LimitBooks : create_book(book) /\ InLimitBounds'
    \/ \E book \in LimitBooks : update_book(1, book) /\ InLimitBounds'
    \/ delete_book(1) /\ InLimitBounds'
    \/ \E member \in LimitMembers : create_member(member, FreshNumber) /\ InLimitBounds'
    \/ \E member \in LimitMembers : update_member(1, member) /\ InLimitBounds'
    \/ delete_member(1) /\ InLimitBounds'
    \/ borrow_book(1, 1, 0) /\ InLimitBounds'
    \/ \E transaction_id \in 1..LimitMaxTx : return_book(transaction_id) /\ InLimitBounds'
    \/ get_overdue_transactions /\ InLimitBounds'
    \/ \E fine_id \in 1..LimitMaxFines : pay_fine(fine_id) /\ InLimitBounds'

SpecLimit == Init /\ [][NextLimit]_vars

(***************************************************************************)
(* SpecConc: borrow requests served by concurrent workers.  Each request   *)
(* has its own session; the handler's four queries and its commit are     *)
(* separate statements, and the session holds no lock between them.  The   *)
(* commit writes the book columns the handler assigned, computed from the  *)
(* row as the handler read it, and inserts the transaction.                *)
(***************************************************************************)
ConcBooks ==
    [isbn : {"111"}, title : {"T1"}, author : {"A1"}, category : {"K1"},
     total_copies : {1, 2}]

ConcMembers == [name : {"N1"}, email : {"a@x", "b@x"}]

Answer(p, code, detail) ==
    req' = [req EXCEPT ![p].pc = "done", ![p].code = code, ![p].detail = detail]

Goto(p, pc) == req' = [req EXCEPT ![p].pc = pc]

borrow_request(p, book_id, member_id) ==
    /\ req[p].pc = "idle"
    /\ req' = [req EXCEPT ![p].pc = "member", ![p].book_id = book_id,
                           ![p].member_id = member_id]
    /\ UNCHANGED <<books, members, transactions, fines, now, last>>

borrow_query_member(p) ==
    /\ req[p].pc = "member"
    /\ IF req[p].member_id \notin DOMAIN members
       THEN Answer(p, 404, "Member not found")
       ELSE Goto(p, "book")
    /\ UNCHANGED <<books, members, transactions, fines, now, last>>

borrow_query_book(p) ==
    /\ req[p].pc = "book"
    /\ IF req[p].book_id \notin DOMAIN books
       THEN Answer(p, 404, "Book not found")
       ELSE IF BookNotAvailable(books[req[p].book_id])
       THEN Answer(p, 409, "Book not available")
       ELSE req' = [req EXCEPT ![p].pc = "count",
                       ![p].available_copies = books[req[p].book_id].available_copies]
    /\ UNCHANGED <<books, members, transactions, fines, now, last>>

borrow_count_active(p) ==
    /\ req[p].pc = "count"
    /\ IF LimitReached(ActiveBorrows(transactions, req[p].member_id))
       THEN Answer(p, 409, "Maximum borrowing limit reached")
       ELSE Goto(p, "fines")
    /\ UNCHANGED <<books, members, transactions, fines, now, last>>

borrow_count_fines(p) ==
    /\ req[p].pc = "fines"
    /\ IF HasUnpaidFines(UnpaidFines(fines, req[p].member_id))
       THEN Answer(p, 409, "Member has unpaid fines")
       ELSE Goto(p, "commit")
    /\ UNCHANGED <<books, members, transactions, fines, now, last>>

\* UPDATE books SET available_copies = <read value - 1> [, status = borrowed]
CommittedBook(book, read_copies) ==
    [book EXCEPT !.available_copies = read_copies - 1,
                 !.status = IF read_copies - 1 = 0 THEN "borrowed" ELSE @]

borrow_commit(p) ==
    /\ req[p].pc = "commit"
    /\ IF req[p].book_id \notin DOMAIN books
       THEN \* the UPDATE matches no row: StaleDataError, rolled back
            /\ Answer(p, 500, "StaleDataError")
            /\ UNCHANGED <<books, transactions>>
       ELSE /\ books' = [books EXCEPT ![req[p].book_id] =
                            CommittedBook(@, req[p].available_copies)]
            /\ transactions' = Append(transactions,
                    NewTransaction(req[p].book_id, req[p].member_id, DueDate(now), now))
            /\ Answer(p, 200, "")
    /\ UNCHANGED <<members, fines, now, last>>

NextConc ==
    \/ \E book \in ConcBooks : create_book(book)
    \/ \E member \in ConcMembers : create_member(member, FreshNumber)
    \/ \E p \in Slots, book_id \in {1}, member_id \in {1, 2} :
          borrow_request(p, book_id, member_id)
    \/ \E p \in Slots : borrow_query_member(p)
    \/ \E p \in Slots : borrow_query_book(p)
    \/ \E p \in Slots : borrow_count_active(p)
    \/ \E p \in Slots : borrow_count_fines(p)
    \/ \E p \in Slots : borrow_commit(p)

SpecConc == Init /\ [][NextConc]_vars

(***************************************************************************)
(* SpecExt: every handler over one book and one member, next to a writer   *)
(* outside the service (an operator at the database) that puts a book in   *)
(* one of the two statuses of BookStatus that no handler assigns.  The     *)
(* writer touches the status column of a book that is available or         *)
(* borrowed, and nothing else.                                             *)
(***************************************************************************)
ExtMaxTx == 1
ExtMaxFines == 1
ExtMaxTime == 29

TerminalStatus == {"reserved", "maintenance"}

ExtSteps == {LoanTicks + 1}

ExtBooks ==
    [isbn : {"111"}, title : {"T1"}, author : {"A1"}, category : {"K1"},
     total_copies : {1}]

ExtMembers == [name : {"N1"}, email : {"a@x"}]

external_status(book_id, status) ==
    /\ book_id \in DOMAIN books
    /\ books[book_id].status \notin TerminalStatus
    /\ books' = [books EXCEPT ![book_id].status = status]
    /\ UNCHANGED <<members, transactions, fines, now, last, req>>

InExtBounds == Bounded(1, 1, ExtMaxTx, ExtMaxFines, 1, ExtMaxTime)

NextExt ==
    \/ \E d \in ExtSteps : Tick(d) /\ InExtBounds'
    \/ \E book \in ExtBooks : create_book(book) /\ InExtBounds'
    \/ \E book \in ExtBooks : update_book(1, book) /\ InExtBounds'
    \/ delete_book(1) /\ InExtBounds'
    \/ \E member \in ExtMembers : create_member(member, FreshNumber) /\ InExtBounds'
    \/ \E member \in ExtMembers : update_member(1, member) /\ InExtBounds'
    \/ delete_member(1) /\ InExtBounds'
    \/ borrow_book(1, 1, 0) /\ InExtBounds'
    \/ \E transaction_id \in 1..ExtMaxTx : return_book(transaction_id) /\ InExtBounds'
    \/ get_overdue_transactions /\ InExtBounds'
    \/ \E fine_id \in 1..ExtMaxFines : pay_fine(fine_id) /\ InExtBounds'
    \/ \E status \in TerminalStatus : external_status(1, status) /\ InExtBounds'

SpecExt == Init /\ [][NextExt]_vars

(***************************************************************************)
(* SpecPair: every handler over two books and one member.  The request     *)
(* bodies differ in every field but the isbn, which two of the three       *)
(* share: an update shows in each column, and it can keep the isbn of its  *)
(* book or meet the isbn of the other one.  No fine is stored: a return    *)
(* past the due date is left to the other specifications.                  *)
(***************************************************************************)
PairMaxTx == 1
PairMaxFines == 0
PairMaxTime == 29
PairMaxCopies == 1

PairSteps == {LoanTicks + 1}

PairBooks ==
    {[isbn |-> "111", title |-> "T1", author |-> "A1", category |-> "K1",
      total_copies |-> 1],
     [isbn |-> "222", title |-> "T2", author |-> "A2", category |-> "K2",
      total_copies |-> 1],
     [isbn |-> "111", title |-> "T3", author |-> "A3", category |-> "K3",
      total_copies |-> 0]}

PairBookIds == {1, 2}

PairMembers == [name : {"N1"}, email : {"a@x"}]

InPairBounds ==
    Bounded(2, 1, PairMaxTx, PairMaxFines, PairMaxCopies, PairMaxTime)

NextPair ==
    \/ \E d \in PairSteps : Tick(d) /\ InPairBounds'
    \/ \E book \in PairBooks : create_book(book) /\ InPairBounds'
    \/ \E book_id \in PairBookIds, book \in PairBooks :
          update_book(book_id, book) /\ InPairBounds'
    \/ \E book_id \in PairBookIds : delete_book(book_id) /\ InPairBounds'
    \/ \E member \in PairMembers : create_member(member, FreshNumber) /\ InPairBounds'
    \/ \E member \in PairMembers : update_member(1, member) /\ InPairBounds'
    \/ delete_member(1) /\ InPairBounds'
    \/ \E book_id \in PairBookIds : borrow_book(book_id, 1, 0) /\ InPairBounds'
    \/ \E transaction_id \in 1..PairMaxTx : return_book(transaction_id) /\ InPairBounds'
    \/ get_overdue_transactions /\ InPairBounds'
    \/ pay_fine(1) /\ InPairBounds'

SpecPair == Init /\ [][NextPair]_vars

(***************************************************************************)
(* SpecCore: the lending operations alone (create_book, create_member,     *)
(* borrow, return_book, pay_fine and the overdue listing; no update and no *)
(* delete) over one book and one member, with a clock that may tick inside *)
(* a borrow and room for a second return of the same transaction.          *)
(***************************************************************************)
CoreMaxTx == 2
CoreMaxFines == 2
CoreMaxTime == 32
CoreMaxCopies == 3

CoreSteps == {LoanTicks + 1}

CoreLags == {0, 1}

CoreBooks ==
    [isbn : {"111"}, title : {"T1"}, author : {"A1"}, category : {"K1"},
     total_copies : {1, 2}]

CoreMembers == [name : {"N1"}, email : {"a@x"}]

InCoreBounds ==
    Bounded(1, 1, CoreMaxTx, CoreMaxFines, CoreMaxCopies, CoreMaxTime)

NextCore ==
    \/ \E d \in CoreSteps : Tick(d) /\ InCoreBounds'
    \/ \E book \in CoreBooks : create_book(book) /\ InCoreBounds'
    \/ \E member \in CoreMembers : create_member(member, FreshNumber) /\ InCoreBounds'
    \/ \E lag \in CoreLags : borrow_book(1, 1, lag) /\ InCoreBounds'
    \/ \E transaction_id \in 1..CoreMaxTx : return_book(transaction_id) /\ InCoreBounds'
    \/ get_overdue_transactions /\ InCoreBounds'
    \/ \E fine_id \in 1..CoreMaxFines : pay_fine(fine_id) /\ InCoreBounds'

SpecCore == Init /\ [][NextCore]_vars

(***************************************************************************)
(* SpecBorrow: the lending operations over two books of two copies and two *)
(* members, far enough for one member to hold three books while a copy is  *)
(* left and for a borrow to happen next to other books, members,           *)
(* transactions and fines.                                                 *)
(***************************************************************************)
BorrowMaxTx == 3
BorrowMaxFines == 1
BorrowMaxTime == 29
BorrowMaxCopies == 2

BorrowSteps == {LoanTicks + 1}

BorrowBooks ==
    {[isbn |-> "111", title |-> "T1", author |-> "A1", category |-> "K1",
      total_copies |-> 2],
     [isbn |-> "222", title |-> "T2", author |-> "A2", category |-> "K2",
      total_copies |-> 2]}

BorrowMembers == [name : {"N1"}, email : {"a@x", "b@x"}]

BorrowIds == {1, 2}

InBorrowBounds ==
    Bounded(2, 2, BorrowMaxTx, BorrowMaxFines, BorrowMaxCopies, BorrowMaxTime)

NextBorrow ==
    \/ \E d \in BorrowSteps : Tick(d) /\ InBorrowBounds'
    \/ \E book \in BorrowBooks : create_book(book) /\ InBorrowBounds'
    \/ \E member \in BorrowMembers : create_member(member, FreshNumber) /\ InBorrowBounds'
    \/ \E book_id \in BorrowIds, member_id \in BorrowIds :
          borrow_book(book_id, member_id, 0) /\ InBorrowBounds'
    \/ \E transaction_id \in 1..BorrowMaxTx : return_book(transaction_id) /\ InBorrowBounds'
    \/ get_overdue_transactions /\ InBorrowBounds'
    \/ \E fine_id \in 1..BorrowMaxFines : pay_fine(fine_id) /\ InBorrowBounds'

SpecBorrow == Init /\ [][NextBorrow]_vars

(***************************************************************************)
(* Which request a step served, read from the response it left.  Every     *)
(* request writes its own response; Tick changes the clock and leaves the  *)
(* response alone.                                                         *)
(***************************************************************************)
BorrowStep(book_id, member_id) ==
    /\ now' = now \/ last' # last
    /\ last'.op = "borrow"
    /\ last'.book_id = book_id
    /\ last'.member_id = member_id

ReturnStep(transaction_id) ==
    /\ now' = now
    /\ last'.op = "return"
    /\ last'.id = transaction_id

PayStep(fine_id) ==
    /\ now' = now
    /\ last'.op = "pay_fine"
    /\ last'.id = fine_id

HasUnpaid(member_id) ==
    \E i \in DOMAIN fines : fines[i].member_id = member_id /\ fines[i].paid_at = Null

\* C1: every book has 0 <= available_copies <= total_copies in every
\* reachable state.
C1_AvailableWithinTotal ==
    \A i \in DOMAIN books :
        /\ 0 <= books[i].available_copies
        /\ books[i].available_copies <= books[i].total_copies

\* C2: right after a successful borrow or return, the book it touched has
\* status = borrowed exactly when its available_copies = 0.
C2_BorrowedIffNoCopies ==
    (last.op \in {"borrow", "return"} /\ last.code = 200 /\ last.book_id \in DOMAIN books)
        => ((books[last.book_id].status = "borrowed")
                <=> (books[last.book_id].available_copies = 0))

\* C3: no member ever has more than 3 active transactions; a borrow by an
\* existing member with 3 active transactions, of an existing book that is
\* available, answers 409 and creates no transaction.
C3_BorrowingLimit ==
    /\ [](\A m \in {transactions[i].member_id : i \in DOMAIN transactions} :
            Cardinality({i \in DOMAIN transactions :
                transactions[i].member_id = m /\ transactions[i].status = "active"}) <= 3)
    /\ [][\A book_id \in DOMAIN books, member_id \in DOMAIN members :
            (/\ BorrowStep(book_id, member_id)
             /\ Cardinality({i \in DOMAIN transactions :
                    /\ transactions[i].member_id = member_id
                    /\ transactions[i].status = "active"}) >= 3)
                => (last'.code = 409 /\ transactions' = transactions)]_vars

C3_Witness ==
    /\ last.op = "borrow"
    /\ last.code = 409
    /\ last.detail = "Maximum borrowing limit reached"
    /\ last.book_id \in DOMAIN books
    /\ books[last.book_id].available_copies > 0
    /\ Cardinality({i \in DOMAIN transactions :
           /\ transactions[i].member_id = last.member_id
           /\ transactions[i].status = "active"}) = 3

\* C4: a borrow by an existing member of an existing book with
\* available_copies = 0 answers 409 and changes neither the transactions nor
\* the books, whatever the book's status.
C4_NoCopiesNoBorrow ==
    [][\A book_id \in DOMAIN books, member_id \in DOMAIN members :
          (BorrowStep(book_id, member_id) /\ books[book_id].available_copies = 0)
              => (last'.code = 409 /\ transactions' = transactions /\ books' = books)]_vars

C4_Witness ==
    /\ last.op = "borrow"
    /\ last.code = 409
    /\ last.detail = "Book not available"
    /\ last.member_id \in DOMAIN members
    /\ last.book_id \in DOMAIN books
    /\ books[last.book_id].available_copies = 0
    /\ \E i \in DOMAIN transactions :
          /\ transactions[i].book_id = last.book_id
          /\ transactions[i].status = "active"

\* C5: a borrow by an existing member of an existing book answers 409 and
\* creates no transaction while the member has a fine with paid_at = null,
\* whatever its amount; with no such fine the answer is never "unpaid fines".
C5_UnpaidFineBlocks ==
    [][\A book_id \in DOMAIN books, member_id \in DOMAIN members :
          BorrowStep(book_id, member_id)
              => /\ HasUnpaid(member_id)
                      => (last'.code = 409 /\ transactions' = transactions)
                 /\ ~HasUnpaid(member_id)
                      => last'.detail # "Member has unpaid fines"]_vars

C5_Witness ==
    /\ last.op = "borrow"
    /\ last.code = 409
    /\ last.detail = "Member has unpaid fines"
    /\ \E i \in DOMAIN fines :
          fines[i].member_id = last.member_id /\ fines[i].paid_at = Null
    /\ \A i \in DOMAIN fines :
          (fines[i].member_id = last.member_id /\ fines[i].paid_at = Null)
              => fines[i].amount = 0

\* C6: under interleaved borrow requests no book goes below 0 available
\* copies or has more active transactions than total_copies: of two requests
\* for a book with one copy at most one is answered 200.
C6_NoOverBorrow ==
    \A b \in DOMAIN books :
        /\ books[b].available_copies >= 0
        /\ Cardinality({i \in DOMAIN transactions :
               transactions[i].book_id = b /\ transactions[i].status = "active"})
             <= books[b].total_copies
        /\ books[b].total_copies = 1
             => Cardinality({p \in DOMAIN req :
                    req[p].book_id = b /\ req[p].code = 200}) <= 1

\* C7: a return with returned_at > due_date adds exactly one fine: unpaid, for
\* the transaction and its member, of 0.50 per whole day between due_date and
\* returned_at (3 days late: 1.50; 5 days late: 2.50).
C7_LateReturnFine ==
    [][\A t \in DOMAIN transactions :
          (ReturnStep(t) /\ last'.code = 200
               /\ transactions'[t].returned_at > transactions[t].due_date)
              => LET late == transactions'[t].returned_at - transactions[t].due_date
                     fine == fines'[Len(fines')]
                 IN  /\ Len(fines') = Len(fines) + 1
                     /\ \A i \in DOMAIN fines : fines'[i] = fines[i]
                     /\ fine.paid_at = Null
                     /\ fine.member_id = transactions[t].member_id
                     /\ fine.transaction_id = t
                     /\ \E d \in 0..late :
                           /\ d * TicksPerDay <= late
                           /\ late < (d + 1) * TicksPerDay
                           /\ fine.amount = d * 50
                     /\ late = 3 * TicksPerDay => fine.amount = 150
                     /\ late = 5 * TicksPerDay => fine.amount = 250]_vars

C7_Witness ==
    /\ last.op = "return"
    /\ last.code = 200
    /\ transactions[last.id].returned_at = transactions[last.id].due_date + 3 * TicksPerDay
    /\ Len(fines) = 1
    /\ fines[1].transaction_id = last.id
    /\ fines[1].amount = 150

\* C8: a return with returned_at <= due_date leaves the fines as they were.
C8_OnTimeNoFine ==
    [][\A t \in DOMAIN transactions :
          (ReturnStep(t) /\ last'.code = 200
               /\ transactions'[t].returned_at <= transactions[t].due_date)
              => fines' = fines]_vars

C8_Witness ==
    /\ last.op = "return"
    /\ last.code = 200
    /\ transactions[last.id].returned_at = transactions[last.id].due_date
    /\ fines = <<>>

\* C9: the overdue listing answers exactly the transactions with status =
\* active and due_date < now, none of them returned, and writes nothing; no
\* transaction ever has status = overdue.
C9_OverdueListing ==
    [][(now' = now /\ last'.op = "overdue")
          => /\ last'.ids = {i \in DOMAIN transactions :
                   transactions[i].status = "active" /\ transactions[i].due_date < now}
             /\ \A i \in last'.ids :
                   transactions[i].returned_at = Null /\ ~(transactions[i].due_date >= now)
             /\ UNCHANGED tables
             /\ \A i \in DOMAIN transactions' : transactions'[i].status # "overdue"]_vars

C9_Witness ==
    /\ last.op = "overdue"
    /\ last.ids = {1}
    /\ transactions[1].status = "active"
    /\ transactions[1].due_date < now

\* C10: a transaction is created only by borrow, with status = active; its
\* status changes only from active to returned, by return; a returned
\* transaction stays returned; no status is ever overdue; no transaction is
\* ever deleted.
C10_TransactionLifecycle ==
    [][/\ Len(transactions') >= Len(transactions)
       /\ Len(transactions') > Len(transactions)
            => /\ last'.op = "borrow"
               /\ Len(transactions') = Len(transactions) + 1
               /\ transactions'[Len(transactions')].status = "active"
       /\ \A i \in DOMAIN transactions :
            /\ i \in DOMAIN transactions'
            /\ transactions'[i].status # "overdue"
            /\ transactions[i].status = "returned"
                 => transactions'[i].status = "returned"
            /\ transactions'[i].status # transactions[i].status
                 => /\ transactions[i].status = "active"
                    /\ transactions'[i].status = "returned"
                    /\ last'.op = "return"]_vars

C10_Witness ==
    /\ last.op = "borrow"
    /\ last.code = 200
    /\ transactions[last.id].status = "active"
    /\ \E i \in 1..(last.id - 1) :
          transactions[i].status = "returned" /\ transactions[i].returned_at # Null

\* C11: reserved and maintenance are terminal: no step of the service puts a
\* book in one of them, and a book that is in one of them keeps its status
\* under every step for as long as it exists, borrow and return_book of a
\* transaction on that book included.
C11_TerminalStatus ==
    [][/\ \A b \in DOMAIN books' :
            books'[b].status \in TerminalStatus
                => \/ b \in DOMAIN books /\ books[b].status = books'[b].status
                   \/ \E status \in TerminalStatus : external_status(b, status)
       /\ \A b \in DOMAIN books \cap DOMAIN books' :
            books[b].status \in TerminalStatus
                => books'[b].status = books[b].status]_vars

\* C12: pay_fine on an existing fine answers 200 with that fine, paid or not
\* before, and sets its paid_at to now, leaving everything else as it was;
\* pay_fine on an absent id answers 404 and changes nothing; no step sets a
\* non-null paid_at back to null or removes the fine.
C12_PayFine ==
    [][/\ \A fine_id \in 1..(Len(fines) + 1) :
            PayStep(fine_id)
                => IF fine_id \in DOMAIN fines
                   THEN /\ last'.code = 200
                        /\ last'.member_id = fines[fine_id].member_id
                        /\ fines' = [fines EXCEPT ![fine_id].paid_at = now]
                        /\ UNCHANGED <<books, members, transactions>>
                   ELSE /\ last'.code = 404
                        /\ last'.detail = "Fine not found"
                        /\ UNCHANGED tables
       /\ \A i \in DOMAIN fines :
            fines[i].paid_at # Null
                => (i \in DOMAIN fines' /\ fines'[i].paid_at # Null)]_vars

C12_Witness ==
    /\ last.op = "pay_fine"
    /\ last.code = 200
    /\ fines[last.id].paid_at = now
    /\ now > transactions[fines[last.id].transaction_id].returned_at

\* C13: a borrow or return_book that fails (404, 409, or the failure on a
\* transaction whose book is gone) leaves the four tables exactly as they
\* were: no row is added and no column of any row is changed.
C13_FailureChangesNothing ==
    [][(now' = now /\ last'.op \in {"borrow", "return"} /\ last'.code # 200)
          => UNCHANGED tables]_vars

C13_Witness ==
    /\ last.op = "return"
    /\ last.code = 500
    /\ last.id \in DOMAIN transactions
    /\ transactions[last.id].book_id \notin DOMAIN books
    /\ transactions[last.id].status = "active"
    /\ transactions[last.id].returned_at = Null

C15_CreateBook ==
    /\ [](\A i, j \in DOMAIN books : books[i].isbn = books[j].isbn => i = j)
    /\ [][\A book \in PairBooks :
            create_book(book)
                => IF \E i \in DOMAIN books : books[i].isbn = book.isbn
                   THEN /\ last'.code = 409
                        /\ UNCHANGED tables
                   ELSE /\ last'.code = 200
                        /\ last'.book_id \notin DOMAIN books
                        /\ DOMAIN books' = DOMAIN books \cup {last'.book_id}
                        /\ \A i \in DOMAIN books : books'[i] = books[i]
                        /\ books'[last'.book_id] =
                              [isbn |-> book.isbn, title |-> book.title,
                               author |-> book.author, category |-> book.category,
                               total_copies |-> book.total_copies,
                               available_copies |-> book.total_copies,
                               status |-> "available"]
                        /\ UNCHANGED <<members, transactions, fines>>]_vars

\* C16: in every reachable state every transaction's book_id and member_id
\* are ids of an existing book and member, and every fine's transaction_id
\* and member_id are ids of an existing transaction and member.
C16_ReferencesExist ==
    /\ \A i \in DOMAIN transactions :
          /\ transactions[i].book_id \in DOMAIN books
          /\ transactions[i].member_id \in DOMAIN members
    /\ \A i \in DOMAIN fines :
          /\ fines[i].transaction_id \in DOMAIN transactions
          /\ fines[i].member_id \in DOMAIN members

\* C17: borrow(book_id, member_id) answers 200 exactly when the member
\* exists, the book exists with status = available and available_copies # 0,
\* the member has fewer than 3 active transactions and no unpaid fine; it then
\* adds exactly one transaction, active and not returned, for that book and
\* member, takes exactly 1 from that book's available_copies (status =
\* borrowed when 0 is reached, unchanged otherwise) and leaves every other
\* book, member, transaction and fine as it was.
C17_BorrowContract ==
    [][\A book_id \in BorrowIds, member_id \in BorrowIds :
          (\E lag \in CoreLags : borrow_book(book_id, member_id, lag))
              => LET ok == /\ member_id \in DOMAIN members
                           /\ book_id \in DOMAIN books
                           /\ books[book_id].status = "available"
                           /\ books[book_id].available_copies # 0
                           /\ Cardinality({i \in DOMAIN transactions :
                                  /\ transactions[i].member_id = member_id
                                  /\ transactions[i].status = "active"}) < 3
                           /\ ~HasUnpaid(member_id)
                     new == Len(transactions) + 1
                 IN  /\ (last'.code = 200) <=> ok
                     /\ ok => /\ Len(transactions') = new
                              /\ \A i \in DOMAIN transactions :
                                    transactions'[i] = transactions[i]
                              /\ last'.id = new
                              /\ transactions'[new].book_id = book_id
                              /\ transactions'[new].member_id = member_id
                              /\ transactions'[new].status = "active"
                              /\ transactions'[new].returned_at = Null
                              /\ books' = [books EXCEPT ![book_id] =
                                    [@ EXCEPT !.available_copies =
                                                  books[book_id].available_copies - 1,
                                              !.status =
                                                  IF books[book_id].available_copies = 1
                                                  THEN "borrowed"
                                                  ELSE books[book_id].status]]
                              /\ UNCHANGED <<members, fines>>]_vars

C17_Witness ==
    /\ last.op = "borrow"
    /\ last.code = 200
    /\ DOMAIN books = {1, 2}
    /\ DOMAIN members = {1, 2}
    /\ books[last.book_id].available_copies = 1
    /\ books[last.book_id].status = "available"
    /\ \E i \in DOMAIN fines :
          fines[i].member_id = last.member_id /\ fines[i].paid_at # Null
    /\ \E i \in DOMAIN transactions :
          /\ transactions[i].member_id # last.member_id
          /\ transactions[i].book_id # last.book_id
          /\ transactions[i].status = "active"

\* C18: every transaction is created with due_date = borrowed_at + 14 days,
\* and no later step changes the borrowed_at or the due_date of a
\* transaction.
C18_DueDate ==
    [][\A i \in DOMAIN transactions' :
          IF i \in DOMAIN transactions
          THEN /\ transactions'[i].borrowed_at = transactions[i].borrowed_at
               /\ transactions'[i].due_date = transactions[i].due_date
          ELSE transactions'[i].due_date
                   = transactions'[i].borrowed_at + 14 * TicksPerDay]_vars

\* C19: with no update_book and no delete, every book has available_copies +
\* (its transactions with status = active) = total_copies in every reachable
\* state; a return_book on a transaction already returned adds no copy.
C19_CopiesAccounted ==
    \A b \in DOMAIN books :
        books[b].available_copies
            + Cardinality({i \in DOMAIN transactions :
                  transactions[i].book_id = b /\ transactions[i].status = "active"})
          = books[b].total_copies

\* C20: a transaction never has more than one fine; a fine is added only by
\* a return_book of a transaction past its due_date, one at a time and for
\* that transaction; a return_book on a transaction already returned adds no
\* fine and leaves returned_at as it was.
C20_OneFinePerTransaction ==
    [][/\ \A t \in DOMAIN transactions' :
            Cardinality({i \in DOMAIN fines' : fines'[i].transaction_id = t}) <= 1
       /\ Len(fines') > Len(fines)
            => /\ last'.op = "return"
               /\ last'.code = 200
               /\ Len(fines') = Len(fines) + 1
               /\ fines'[Len(fines')].transaction_id = last'.id
               /\ transactions'[last'.id].returned_at > transactions'[last'.id].due_date
       /\ \A t \in DOMAIN transactions :
            (ReturnStep(t) /\ transactions[t].status = "returned")
                => /\ fines' = fines
                   /\ transactions'[t].returned_at = transactions[t].returned_at]_vars

====
